---- MODULE Spec2Model ----
(***************************************************************************)
(* Model of the context-aware assistant pipeline                           *)
(*   analyze_input (nlp_engine.py) -> reason (reasoning_engine.py)         *)
(*   -> execute (action_engine.py)                                         *)
(* Texts are sequences of one-character strings, so that lower(), the      *)
(* substring tests and the regular expressions are computed as the code    *)
(* computes them.  Confidences are integers in units of 1/10000.           *)
(***************************************************************************)
EXTENDS Integers, Sequences, FiniteSets, TLC

(* ------------------------------ bounds -------------------------------- *)
\* number of requests one run of the pipeline model processes
MaxInteractions == 3
\* number of fragments a generated utterance is made of
MaxWords == 2

(* ------------------------- python values ------------------------------ *)
\* Python's None, in a slot that otherwise holds a text or a search hit
None == <<"None">>

\* truth value of an optional text: None and "" are falsy
Truthy(v) == v # None /\ v # <<>>

\* dict.get(key, default)
Get(d, key, default) == IF key \in DOMAIN d THEN d[key] ELSE default

(* ------------------------------ strings ------------------------------- *)
UpperSeq ==
    <<"A","B","C","D","E","F","G","H","I","J","K","L","M","N","O","P","Q","R","S","T","U","V","W","X","Y","Z">>
LowerSeq ==
    <<"a","b","c","d","e","f","g","h","i","j","k","l","m","n","o","p","q","r","s","t","u","v","w","x","y","z">>
Digits == {"0","1","2","3","4","5","6","7","8","9"}

\* str.lower() on one character
LowerOf ==
    [c \in { UpperSeq[i] : i \in 1..26 } |->
        LowerSeq[CHOOSE i \in 1..26 : UpperSeq[i] = c]]
LowerChar(c) == IF c \in DOMAIN LowerOf THEN LowerOf[c] ELSE c

\* str.lower()
Lower(s) == SubSeq([i \in 1..Len(s) |-> LowerChar(s[i])], 1, Len(s))

\* s[i:].startswith(p), i counted from 0
MatchAt(s, p, i) ==
    /\ i + Len(p) <= Len(s)
    /\ \A k \in 1..Len(p) : s[i + k] = p[k]

\* p in s
Contains(s, p) == \E i \in 0..(Len(s) - Len(p)) : MatchAt(s, p, i)

\* s.startswith(p)
StartsWith(s, p) == MatchAt(s, p, 0)

\* any(p in s for p in ps)
ContainsAny(s, ps) == \E k \in 1..Len(ps) : Contains(s, ps[k])

(* -------------------- nlp_engine.detect_intent_rule_based -------------- *)
RetrievalPhrases ==
    << <<"w","h","a","t"," ","h","a","v","e"," ","i">>,
       <<"w","h","a","t"," ","d","i","d">>,
       <<"d","i","d"," ","i"," ","m","e","n","t","i","o","n">>,
       <<"d","o"," ","y","o","u"," ","r","e","m","e","m","b","e","r">>,
       <<"w","h","a","t"," ","h","a","v","e"," ","y","o","u"," ","t","o","l","d">>,
       <<"t","e","l","l"," ","m","e"," ","a","b","o","u","t">> >>
WhatWord ==
    <<"w","h","a","t">>
RecallWords ==
    << <<"t","o","l","d">>,
       <<"s","a","i","d">>,
       <<"m","e","n","t","i","o","n","e","d">>,
       <<"e","a","r","l","i","e","r">> >>
PreferWord ==
    <<"p","r","e","f","e","r">>
RememberWord ==
    <<"r","e","m","e","m","b","e","r">>
ReminderWords ==
    << <<"r","e","m","i","n","d">>,
       <<"r","e","m","i","n","d","e","r">>,
       <<"a","l","e","r","t">> >>
MeetingWords ==
    << <<"s","c","h","e","d","u","l","e">>,
       <<"m","e","e","t","i","n","g">>,
       <<"a","p","p","o","i","n","t">> >>
DidIMention ==
    <<"d","i","d"," ","i"," ","m","e","n","t","i","o","n">>
TaskWords ==
    << <<"s","u","b","m","i","t">>,
       <<"a","t","t","e","n","d">>,
       <<"c","o","m","p","l","e","t","e">>,
       <<"f","i","n","i","s","h">>,
       <<"s","e","n","d">>,
       <<"c","a","l","l">>,
       <<"p","a","y">>,
       <<"b","u","y">>,
       <<"p","r","e","p","a","r","e">>,
       <<"v","i","s","i","t">>,
       <<"m","e","e","t">> >>

\* lines 143-146: retrieval / memory recall, checked first
IsRetrieval(text) ==
    \/ ContainsAny(text, RetrievalPhrases)
    \/ StartsWith(text, WhatWord) /\ ContainsAny(text, RecallWords)

\* line 149
IsPreference(text) == Contains(text, PreferWord) /\ ~Contains(text, RememberWord)

\* the reminder rule without the keyword "remind"
IsReminder_without_remind(text) == Contains(text, ReminderWords[2]) \/ Contains(text, ReminderWords[3])

\* line 153
IsReminder(text) == ContainsAny(text, ReminderWords)

\* the scheduling rule without the exclusion of "what"
IsMeeting_ignoring_what(text) ==
    ContainsAny(text, MeetingWords) /\ ~Contains(text, DidIMention)

\* lines 157-159
IsMeeting(text) ==
    /\ ContainsAny(text, MeetingWords)
    /\ ~Contains(text, DidIMention) /\ ~Contains(text, WhatWord)

\* line 163
IsTask(text) == ContainsAny(text, TaskWords)

\* the rules with the preference rule tried before the retrieval rule
detect_intent_rule_based_preference_first(user_text) ==
    LET text == Lower(user_text) IN
    IF IsPreference(text) THEN <<"set_preference", 9000>>
    ELSE IF IsRetrieval(text) THEN <<"retrieve_task", 8000>>
    ELSE IF IsReminder(text) THEN <<"set_reminder", 9000>>
    ELSE IF IsMeeting(text) THEN <<"schedule_meeting", 9000>>
    ELSE IF IsTask(text) THEN <<"create_task", 8500>>
    ELSE <<"unknown", 3000>>

\* the (intent, confidence) pair of the deterministic backend
detect_intent_rule_based(user_text) ==
    LET text == Lower(user_text) IN
    IF IsRetrieval(text) THEN <<"retrieve_task", 8000>>
    ELSE IF IsPreference(text) THEN <<"set_preference", 9000>>
    ELSE IF IsReminder(text) THEN <<"set_reminder", 9000>>
    ELSE IF IsMeeting(text) THEN <<"schedule_meeting", 9000>>
    ELSE IF IsTask(text) THEN <<"create_task", 8500>>
    ELSE <<"unknown", 3000>>

(* ------------------------------ inputs -------------------------------- *)
\* fragments the generated utterances are made of
Fragments ==
    { <<"D","i","d"," ","I"," ","m","e","n","t","i","o","n">>,
      <<"w","h","a","t"," ","h","a","v","e"," ","I">>,
      <<"D","o"," ","y","o","u"," ","r","e","m","e","m","b","e","r">>,
      <<"t","e","l","l"," ","m","e"," ","a","b","o","u","t">>,
      <<"t","h","e"," ","m","e","e","t","i","n","g">>,
      <<"I"," ","p","r","e","f","e","r"," ","t","e","a">>,
      <<"r","e","m","i","n","d"," ","m","e">>,
      <<"p","a","y"," ","t","h","e"," ","b","i","l","l">>,
      <<"h","e","l","l","o">>,
      <<"w","h","a","t","e","v","e","r">>,
      <<"s","c","h","e","d","u","l","e">>,
      <<"w","h","a","t">>,
      <<"e","a","r","l","i","e","r">> }

Join(a, b) == a \o <<" ">> \o b

RECURSIVE UtterancesOf(_)
UtterancesOf(n) ==
    IF n <= 1 THEN Fragments
    ELSE LET shorter == UtterancesOf(n - 1) IN
         shorter \cup { Join(u, f) : u \in shorter, f \in Fragments }

\* every utterance of 1..MaxWords fragments
Utterances == UtterancesOf(MaxWords)

\* TEST_CASES (test_all_modes.py, lines 20-33): <<input_text, expected_intent>>
TEST_CASES ==
    <<
       \* "schedule a meeting tomorrow at 3pm"
       << <<"s","c","h","e","d","u","l","e"," ","a"," ","m","e","e","t","i","n","g"," ","t","o","m","o","r","r","o","w"," ","a","t"," ","3","p","m">>,
          "schedule_meeting" >>,
       \* "remind me about the project deadline"
       << <<"r","e","m","i","n","d"," ","m","e"," ","a","b","o","u","t"," ","t","h","e"," ","p","r","o","j","e","c","t"," ","d","e","a","d","l","i","n","e">>,
          "set_reminder" >>,
       \* "I prefer coffee over tea"
       << <<"I"," ","p","r","e","f","e","r"," ","c","o","f","f","e","e"," ","o","v","e","r"," ","t","e","a">>,
          "set_preference" >>,
       \* "what did I tell you earlier"
       << <<"w","h","a","t"," ","d","i","d"," ","I"," ","t","e","l","l"," ","y","o","u"," ","e","a","r","l","i","e","r">>,
          "retrieve_task" >>,
       \* "send an email to john"
       << <<"s","e","n","d"," ","a","n"," ","e","m","a","i","l"," ","t","o"," ","j","o","h","n">>,
          "create_task" >>,
       \* "set my timezone to EST"
       << <<"s","e","t"," ","m","y"," ","t","i","m","e","z","o","n","e"," ","t","o"," ","E","S","T">>,
          "set_preference" >>,
       \* "alert me in 30 minutes"
       << <<"a","l","e","r","t"," ","m","e"," ","i","n"," ","3","0"," ","m","i","n","u","t","e","s">>,
          "set_reminder" >>,
       \* "book an appointment with alice"
       << <<"b","o","o","k"," ","a","n"," ","a","p","p","o","i","n","t","m","e","n","t"," ","w","i","t","h"," ","a","l","i","c","e">>,
          "schedule_meeting" >>,
       \* "did I mention anything about the presentation"
       << <<"d","i","d"," ","I"," ","m","e","n","t","i","o","n"," ","a","n","y","t","h","i","n","g"," ","a","b","o","u","t"," ","t","h","e"," ","p","r","e","s","e","n","t","a","t","i","o","n">>,
          "retrieve_task" >>,
       \* "submit the report by Friday"
       << <<"s","u","b","m","i","t"," ","t","h","e"," ","r","e","p","o","r","t"," ","b","y"," ","F","r","i","d","a","y">>,
          "create_task" >>,
       \* "hello there"
       << <<"h","e","l","l","o"," ","t","h","e","r","e">>,
          "unknown" >>,
       \* "call the client tomorrow"
       << <<"c","a","l","l"," ","t","h","e"," ","c","l","i","e","n","t"," ","t","o","m","o","r","r","o","w">>,
          "create_task" >>
    >>

TestTexts == { TEST_CASES[k][1] : k \in 1..Len(TEST_CASES) }

\* fragments with temporal and person spans: "by Friday", "in May", "Kavita mam", "John sir", ...
EntityFragments ==
    {
      <<"b","y"," ","F","r","i","d","a","y">>,
      <<"i","n"," ","M","a","y">>,
      <<"K","a","v","i","t","a"," ","m","a","m">>,
      <<"J","o","h","n"," ","s","i","r">>,
      <<"2","0"," ","f","e","b"," ","2","0","2","6">>,
      <<"7"," ","p","m">>,
      <<"3"," ","p","m">>,
      <<"1","0",":","3","0"," ","a","m">>,
      <<"t","o","m","o","r","r","o","w">>,
      <<"t","o"," ","j","o","h","n">>,
      <<"p","a","y"," ","r","e","n","t">> }

RECURSIVE EntityTextsOf(_)
EntityTextsOf(n) ==
    IF n <= 1 THEN EntityFragments
    ELSE LET shorter == EntityTextsOf(n - 1) IN
         shorter \cup { Join(u, f) : u \in shorter, f \in EntityFragments }

\* every text of 1..MaxWords of these fragments
EntityTexts == EntityTextsOf(MaxWords)

\* "remind me to pay electricity bill on 20 feb 2026 at 7 pm"
T_remind ==
    <<"r","e","m","i","n","d"," ","m","e"," ","t","o"," ","p","a","y"," ","e","l","e","c","t","r","i","c","i","t","y"," ","b","i","l","l"," ","o","n"," ","2","0"," ","f","e","b"," ","2","0","2","6"," ","a","t"," ","7"," ","p","m">>
\* the texts analyze_input is tested on
TestInputs == Utterances \cup TestTexts \cup EntityTexts \cup {T_remind}

(* ---------------- nlp_engine.analyze_input: the patterns --------------- *)
\* alternatives of the month group, in the order the pattern lists them
Months ==
    << <<"j","a","n","u","a","r","y">>,
       <<"f","e","b","r","u","a","r","y">>,
       <<"m","a","r","c","h">>,
       <<"a","p","r","i","l">>,
       <<"m","a","y">>,
       <<"j","u","n","e">>,
       <<"j","u","l","y">>,
       <<"a","u","g","u","s","t">>,
       <<"s","e","p","t","e","m","b","e","r">>,
       <<"o","c","t","o","b","e","r">>,
       <<"n","o","v","e","m","b","e","r">>,
       <<"d","e","c","e","m","b","e","r">>,
       <<"j","a","n">>,
       <<"f","e","b">>,
       <<"m","a","r">>,
       <<"a","p","r">>,
       <<"m","a","y">>,
       <<"j","u","n">>,
       <<"j","u","l">>,
       <<"a","u","g">>,
       <<"s","e","p">>,
       <<"o","c","t">>,
       <<"n","o","v">>,
       <<"d","e","c">> >>
Meridiems ==
    << <<"a","m">>,
       <<"p","m">>,
       <<"a","m">>,
       <<"p","m">> >>
RelativeDays ==
    << <<"t","o","d","a","y">>,
       <<"t","o","m","o","r","r","o","w">>,
       <<"t","o","n","i","g","h","t">>,
       <<"y","e","s","t","e","r","d","a","y">> >>
Weekdays ==
    << <<"m","o","n","d","a","y">>,
       <<"t","u","e","s","d","a","y">>,
       <<"w","e","d","n","e","s","d","a","y">>,
       <<"t","h","u","r","s","d","a","y">>,
       <<"f","r","i","d","a","y">>,
       <<"s","a","t","u","r","d","a","y">>,
       <<"s","u","n","d","a","y">> >>
Honorifics ==
    << <<"m","a","m">>,
       <<"s","i","r">>,
       <<"m","a","d","a","m">>,
       <<"m","r","s">>,
       <<"m","r">>,
       <<"m","s">>,
       <<"d","r">>,
       <<"p","r","o","f">>,
       <<"d","a","d">>,
       <<"m","o","m">> >>
Prepositions ==
    << <<"t","o">>,
       <<"w","i","t","h">>,
       <<"f","r","o","m">>,
       <<"b","y">>,
       <<"f","o","r">> >>
\* excluded_words of the preposition strategy (lines 55-63)
excluded_words_prep ==
    { <<"t","h","e">>,
      <<"y","o","u">>,
      <<"m","e">>,
      <<"h","i","m">>,
      <<"h","e","r">>,
      <<"i","t">>,
      <<"t","h","e","m">>,
      <<"t","i","m","e">>,
      <<"s","u","b","m","i","t">>,
      <<"m","o","r","n","i","n","g">>,
      <<"a","f","t","e","r","n","o","o","n">>,
      <<"e","v","e","n","i","n","g">>,
      <<"n","i","g","h","t">>,
      <<"t","o","d","a","y">>,
      <<"t","o","m","o","r","r","o","w">>,
      <<"y","e","s","t","e","r","d","a","y">>,
      <<"m","o","n","d","a","y">>,
      <<"t","u","e","s","d","a","y">>,
      <<"w","e","d","n","e","s","d","a","y">>,
      <<"t","h","u","r","s","d","a","y">>,
      <<"f","r","i","d","a","y">>,
      <<"s","a","t","u","r","d","a","y">>,
      <<"s","u","n","d","a","y">>,
      <<"j","a","n","u","a","r","y">>,
      <<"f","e","b","r","u","a","r","y">>,
      <<"m","a","r","c","h">>,
      <<"a","p","r","i","l">>,
      <<"m","a","y">>,
      <<"j","u","n","e">>,
      <<"j","u","l","y">>,
      <<"a","u","g","u","s","t">>,
      <<"s","e","p","t","e","m","b","e","r">>,
      <<"o","c","t","o","b","e","r">>,
      <<"n","o","v","e","m","b","e","r">>,
      <<"d","e","c","e","m","b","e","r">>,
      <<"j","a","n">>,
      <<"f","e","b">>,
      <<"m","a","r">>,
      <<"a","p","r">>,
      <<"j","u","n">>,
      <<"j","u","l">>,
      <<"a","u","g">>,
      <<"s","e","p">>,
      <<"o","c","t">>,
      <<"n","o","v">>,
      <<"d","e","c">>,
      <<"t","o","n","i","g","h","t">>,
      <<"d","a","t","e">>,
      <<"d","a","y">>,
      <<"h","o","u","r">>,
      <<"m","i","n","u","t","e">>,
      <<"w","e","e","k">>,
      <<"m","o","n","t","h">>,
      <<"y","e","a","r">>,
      <<"p","m">>,
      <<"a","m">> }
\* excluded_words of the capitalized-word strategy (lines 76-84)
excluded_words_cap ==
    { <<"I">>,
      <<"T","h","e">>,
      <<"T","h","i","s">>,
      <<"T","h","a","t">>,
      <<"W","h","a","t">>,
      <<"W","h","e","n">>,
      <<"W","h","e","r","e">>,
      <<"W","h","y">>,
      <<"H","o","w">>,
      <<"Y","o","u">>,
      <<"S","u","b","m","i","t">>,
      <<"A","l","e","r","t">>,
      <<"R","e","m","i","n","d">>,
      <<"Y","o","u","r">>,
      <<"F","o","r","m">>,
      <<"M","o","r","n","i","n","g">>,
      <<"A","f","t","e","r","n","o","o","n">>,
      <<"E","v","e","n","i","n","g">>,
      <<"N","i","g","h","t">>,
      <<"T","o","d","a","y">>,
      <<"T","o","m","o","r","r","o","w">>,
      <<"Y","e","s","t","e","r","d","a","y">>,
      <<"M","o","n","d","a","y">>,
      <<"T","u","e","s","d","a","y">>,
      <<"W","e","d","n","e","s","d","a","y">>,
      <<"T","h","u","r","s","d","a","y">>,
      <<"F","r","i","d","a","y">>,
      <<"S","a","t","u","r","d","a","y">>,
      <<"S","u","n","d","a","y">>,
      <<"J","a","n","u","a","r","y">>,
      <<"F","e","b","r","u","a","r","y">>,
      <<"M","a","r","c","h">>,
      <<"A","p","r","i","l">>,
      <<"J","u","n","e">>,
      <<"J","u","l","y">>,
      <<"A","u","g","u","s","t">>,
      <<"S","e","p","t","e","m","b","e","r">>,
      <<"O","c","t","o","b","e","r">>,
      <<"N","o","v","e","m","b","e","r">>,
      <<"D","e","c","e","m","b","e","r">>,
      <<"J","a","n">>,
      <<"F","e","b">>,
      <<"M","a","r">>,
      <<"A","p","r">>,
      <<"J","u","n">>,
      <<"J","u","l">>,
      <<"A","u","g">>,
      <<"S","e","p">>,
      <<"O","c","t">>,
      <<"N","o","v">>,
      <<"D","e","c">>,
      <<"T","o","n","i","g","h","t">>,
      <<"D","a","t","e">>,
      <<"T","i","m","e">>,
      <<"D","a","y">>,
      <<"H","o","u","r">>,
      <<"M","i","n","u","t","e">>,
      <<"W","e","e","k">>,
      <<"M","o","n","t","h">>,
      <<"Y","e","a","r">>,
      <<"P","m">>,
      <<"A","m">> }

(* ------------- nlp_engine.analyze_input: regular expressions ----------- *)
\* Offsets are counted from 0 as in Python: the character at offset i of s
\* is s[i + 1].  A matcher returns the end offset of the match that starts
\* at offset i, or -1 when the pattern does not match there.
UpperSet == { UpperSeq[i] : i \in 1..26 }
LowerSet == { LowerSeq[i] : i \in 1..26 }
Whitespace == {" ", "\t"}

IsDigit(c) == c \in Digits
IsUpper(c) == c \in UpperSet
IsLower(c) == c \in LowerSet
IsLetter(c) == IsUpper(c) \/ IsLower(c)
\* \w
IsWord(c) == IsLetter(c) \/ IsDigit(c) \/ c = "_"

\* \d{n} at offset i
DigitsAt(s, i, n) == i + n <= Len(s) /\ \A k \in 1..n : IsDigit(s[i + k])

\* end of the longest run of whitespace / letters / lower-case letters that
\* starts at offset i (i itself when the run is empty)
SpaceRunEnd(s, i) ==
    CHOOSE j \in i..Len(s) :
        /\ \A k \in (i + 1)..j : s[k] \in Whitespace
        /\ (j = Len(s) \/ s[j + 1] \notin Whitespace)
LetterRunEnd(s, i) ==
    CHOOSE j \in i..Len(s) :
        /\ \A k \in (i + 1)..j : IsLetter(s[k])
        /\ (j = Len(s) \/ ~IsLetter(s[j + 1]))
LowerRunEnd(s, i) ==
    CHOOSE j \in i..Len(s) :
        /\ \A k \in (i + 1)..j : IsLower(s[k])
        /\ (j = Len(s) \/ ~IsLower(s[j + 1]))

\* \b at offset j
WordBoundary(s, j) ==
    LET before == j >= 1 /\ IsWord(s[j])
        after == j < Len(s) /\ IsWord(s[j + 1])
    IN before # after

\* (?:a|b|...) under re.IGNORECASE at offset i of the lower-cased text ls:
\* the first alternative, in the order of alts, that matches and after
\* which the rest of the pattern matches, allowed being the end offsets
\* where it does; -1 when there is none
FirstAlt(ls, alts, i, allowed) ==
    LET ok(k) == MatchAt(ls, alts[k], i) /\ (i + Len(alts[k])) \in allowed
    IN IF \E k \in 1..Len(alts) : ok(k)
       THEN LET k == CHOOSE k \in 1..Len(alts) :
                        ok(k) /\ \A h \in 1..(k - 1) : ~ok(h)
            IN i + Len(alts[k])
       ELSE -1

\* the alternation ends the pattern: every end offset is allowed
AnyEnd(ls) == 0..Len(ls)

\* \d{1,2}\s+ : two digits are tried before one; the run of whitespace is
\* taken whole, since what follows it in every pattern is not whitespace
DayAndSpace(s, i) ==
    LET try(d) == IF DigitsAt(s, i, d) /\ SpaceRunEnd(s, i + d) > i + d
                  THEN SpaceRunEnd(s, i + d) ELSE -1
    IN IF try(2) # -1 THEN try(2) ELSE try(1)

\* time_patterns[0]: \d{1,2}\s+(?:january|...|dec)\s+\d{4}
DateWithYearEnd(s, ls, i) ==
    LET j == DayAndSpace(s, i)
        year(e) == SpaceRunEnd(s, e) > e /\ DigitsAt(s, SpaceRunEnd(s, e), 4)
        m == IF j = -1 THEN -1 ELSE FirstAlt(ls, Months, j, { e \in j..Len(s) : year(e) })
    IN IF m = -1 THEN -1 ELSE SpaceRunEnd(s, m) + 4

\* time_patterns[1]: \d{1,2}:\d{2}\s*(?:am|pm|AM|PM)
ClockEnd(s, ls, i) ==
    LET try(d) ==
            IF /\ DigitsAt(s, i, d)
               /\ i + d < Len(s) /\ s[i + d + 1] = ":"
               /\ DigitsAt(s, i + d + 1, 2)
            THEN FirstAlt(ls, Meridiems, SpaceRunEnd(s, i + d + 3), AnyEnd(ls))
            ELSE -1
    IN IF try(2) # -1 THEN try(2) ELSE try(1)

\* time_patterns[2]: \d{1,2}\s+(?:am|pm|AM|PM)
HourEnd(s, ls, i) ==
    LET j == DayAndSpace(s, i)
    IN IF j = -1 THEN -1 ELSE FirstAlt(ls, Meridiems, j, AnyEnd(ls))

\* time_patterns[3]: \d{1,2}/\d{1,2}/\d{2,4}
NumericDateEnd(s, i) ==
    LET slash(j) == j < Len(s) /\ s[j + 1] = "/"
        \* \d{2,4}, greedy, nothing after it
        yearEnd(j) == IF DigitsAt(s, j, 4) THEN j + 4
                      ELSE IF DigitsAt(s, j, 3) THEN j + 3
                      ELSE IF DigitsAt(s, j, 2) THEN j + 2 ELSE -1
        second(j) == IF DigitsAt(s, j, 2) /\ slash(j + 2) /\ yearEnd(j + 3) # -1
                     THEN yearEnd(j + 3)
                     ELSE IF DigitsAt(s, j, 1) /\ slash(j + 1)
                     THEN yearEnd(j + 2) ELSE -1
        first(d) == IF DigitsAt(s, i, d) /\ slash(i + d)
                    THEN second(i + d + 1) ELSE -1
    IN IF first(2) # -1 THEN first(2) ELSE first(1)

\* time_patterns[6]: \d{1,2}\s+(?:january|...|dec)
DateEnd(s, ls, i) ==
    LET j == DayAndSpace(s, i)
    IN IF j = -1 THEN -1 ELSE FirstAlt(ls, Months, j, AnyEnd(ls))

\* the seven time_patterns, in list order (lines 19-27)
TimePatterns == 1..7
TimeEnd(p, s, ls, i) ==
    CASE p = 1 -> DateWithYearEnd(s, ls, i)
      [] p = 2 -> ClockEnd(s, ls, i)
      [] p = 3 -> HourEnd(s, ls, i)
      [] p = 4 -> NumericDateEnd(s, i)
      [] p = 5 -> FirstAlt(ls, RelativeDays, i, AnyEnd(ls))
      [] p = 6 -> FirstAlt(ls, Weekdays, i, AnyEnd(ls))
      [] p = 7 -> DateEnd(s, ls, i)

\* re.finditer: the non-overlapping matches from left to right, as spans
\* <<start, end>>, the search resuming at the end of each match; ends[i + 1]
\* is the end of the match at offset i or -1
RECURSIVE FindIter(_, _)
FindIter(ends, pos) ==
    LET starts == { i \in pos..(Len(ends) - 1) : ends[i + 1] > i }
    IN IF starts = {} THEN <<>>
       ELSE LET i == CHOOSE i \in starts : \A j \in starts : i <= j
            IN <<<<i, ends[i + 1]>>>> \o FindIter(ends, ends[i + 1])

\* match.group() of a span
Group(s, span) == SubSeq(s, span[1] + 1, span[2])

\* the matches of time pattern p in s, as strings
TimeMatches(p, s) ==
    LET ls == Lower(s)
        end(i) == TimeEnd(p, s, ls, i)
        ends == SubSeq([k \in 1..Len(s) |-> end(k - 1)], 1, Len(s))
        spans == FindIter(ends, 0)
    IN [k \in 1..Len(spans) |-> Group(s, spans[k])]

(* -------------- nlp_engine.analyze_input: entity extraction ------------ *)
\* every time match, pattern by pattern and left to right (lines 29-32)
AllTimeMatches(s) ==
    LET RECURSIVE from(_)
        from(p) == IF p > 7 THEN <<>> ELSE TimeMatches(p, s) \o from(p + 1)
    IN from(1)

\* the loop body with > in place of >= : the first of two matches of equal
\* length stays dominant
TimeStep_strict(acc, time_str) ==
    LET time_entity == acc[1]
        entities == acc[2]
    IN IF time_entity = None \/ Len(time_str) > Len(time_entity)
       THEN <<time_str,
              IF \/ entities = <<>>
                 \/ entities[Len(entities)][2] # "TIME"
                 \/ entities[Len(entities)][1] # time_str
              THEN Append(entities, <<time_str, "TIME">>)
              ELSE entities>>
       ELSE acc

\* one iteration of the loop body, lines 32-37, on the pair
\* <<time_entity, entities>>
TimeStep(acc, time_str) ==
    LET time_entity == acc[1]
        entities == acc[2]
    IN IF time_entity = None \/ Len(time_str) >= Len(time_entity)
       THEN <<time_str,
              IF \/ entities = <<>>
                 \/ entities[Len(entities)][2] # "TIME"
                 \/ entities[Len(entities)][1] # time_str
              THEN Append(entities, <<time_str, "TIME">>)
              ELSE entities>>
       ELSE acc

RECURSIVE TimeFold(_, _, _)
TimeFold(matches, k, acc) ==
    IF k > Len(matches) THEN acc
    ELSE TimeFold(matches, k + 1, TimeStep(acc, matches[k]))

\* lines 14-37: <<time_entity, entities>> after the time loop
ExtractTime(s) == TimeFold(AllTimeMatches(s), 1, <<None, <<>>>>)

\* person_pattern_with_title (line 41), re.IGNORECASE:
\* \b[A-Z][a-z]+(?:\s+(?:mam|sir|...|mom))\b
TitleEnd(s, ls, i) ==
    LET e1 == LetterRunEnd(s, i)
        e2 == SpaceRunEnd(s, e1)
        bound(e) == WordBoundary(s, e)
    IN IF /\ IsLetter(s[i + 1]) /\ WordBoundary(s, i)
          /\ e1 - i >= 2 /\ e2 > e1
       THEN FirstAlt(ls, Honorifics, e2, { e \in e2..Len(s) : bound(e) })
       ELSE -1

\* lines 42-46: every match sets person_entity and appends an entity
TitleMatches(s) ==
    LET ls == Lower(s)
        end(i) == TitleEnd(s, ls, i)
        ends == SubSeq([k \in 1..Len(s) |-> end(k - 1)], 1, Len(s))
        spans == FindIter(ends, 0)
    IN [k \in 1..Len(spans) |-> Group(s, spans[k])]

\* preposition_pattern (line 50), re.IGNORECASE:
\* (?:to|with|from|by|for)\s+([a-z]+)\b ; PrepName is the span of group 1
PrepName(s, ls, i) ==
    LET p == FirstAlt(ls, Prepositions, i, AnyEnd(ls))
        n == IF p = -1 THEN -1 ELSE SpaceRunEnd(s, p)
        e == IF n = -1 THEN -1 ELSE LetterRunEnd(s, n)
    IN IF p # -1 /\ n > p /\ e > n /\ WordBoundary(s, e)
       THEN <<n, e>> ELSE <<-1, -1>>

PrepMatches(s) ==
    LET ls == Lower(s)
        end(i) == PrepName(s, ls, i)[2]
        ends == SubSeq([k \in 1..Len(s) |-> end(k - 1)], 1, Len(s))
        spans == FindIter(ends, 0)
    IN [k \in 1..Len(spans) |-> Group(s, PrepName(s, ls, spans[k][1]))]

\* person_pattern (line 71), case-sensitive: \b[A-Z][a-z]+\b
CapEnd(s, i) ==
    LET e == LowerRunEnd(s, i + 1)
    IN IF /\ IsUpper(s[i + 1]) /\ WordBoundary(s, i)
          /\ e > i + 1 /\ WordBoundary(s, e)
       THEN e ELSE -1

CapMatches(s) ==
    LET end(i) == CapEnd(s, i)
        ends == SubSeq([k \in 1..Len(s) |-> end(k - 1)], 1, Len(s))
        spans == FindIter(ends, 0)
    IN [k \in 1..Len(spans) |-> Group(s, spans[k])]

\* the first name of a strategy's matches that passes the filter of lines
\* 64 and 85 (the loop breaks there), None when no name passes
FirstAccepted(names, excluded) ==
    LET ok(k) == names[k] \notin excluded /\ Len(names[k]) > 2
    IN IF \E k \in 1..Len(names) : ok(k)
       THEN names[CHOOSE k \in 1..Len(names) :
                      ok(k) /\ \A h \in 1..(k - 1) : ~ok(h)]
       ELSE None

\* the strategies with the first honorific match kept as the person
ExtractPerson_first_title(s) ==
    LET titles == TitleMatches(s)
        byPrep == FirstAccepted(PrepMatches(s), excluded_words_prep)
        byCap == FirstAccepted(CapMatches(s), excluded_words_cap)
    IN IF Len(titles) > 0
       THEN <<titles[1],
              [k \in 1..Len(titles) |-> <<titles[k], "PERSON">>]>>
       ELSE IF byPrep # None THEN <<byPrep, <<<<byPrep, "PERSON">>>>>>
       ELSE IF byCap # None THEN <<byCap, <<<<byCap, "PERSON">>>>>>
       ELSE <<None, <<>>>>

\* lines 39-88: <<person_entity, entities>>, entities being the PERSON
\* entities appended to the list in order
ExtractPerson(s) ==
    LET titles == TitleMatches(s)
        byPrep == FirstAccepted(PrepMatches(s), excluded_words_prep)
        byCap == FirstAccepted(CapMatches(s), excluded_words_cap)
    IN IF Len(titles) > 0
       THEN <<titles[Len(titles)],
              [k \in 1..Len(titles) |-> <<titles[k], "PERSON">>]>>
       ELSE IF byPrep # None THEN <<byPrep, <<<<byPrep, "PERSON">>>>>>
       ELSE IF byCap # None THEN <<byCap, <<<<byCap, "PERSON">>>>>>
       ELSE <<None, <<>>>>

\* lines 14-88: the entities, time and person fields of the result
extract(s) ==
    LET t == ExtractTime(s)
        p == ExtractPerson(s)
    IN [entities |-> t[2] \o p[2], time |-> t[1], person |-> p[1]]

(* ------------------------- intent_detectors.py ------------------------- *)
\* keys of INTENT_CONFIG, in dict order (lines 20-27)
IntentLabels ==
    <<"set_preference", "set_reminder", "schedule_meeting", "retrieve_task",
      "create_task", "unknown">>
Intents == { IntentLabels[k] : k \in 1..Len(IntentLabels) }

\* INTENT_CONFIG[label]["template"]
Template(label) ==
    CASE label = "set_preference" -> "User is setting their preference or configuration"
      [] label = "set_reminder" -> "User is setting a reminder or alarm"
      [] label = "schedule_meeting" -> "User is scheduling a meeting or appointment"
      [] label = "retrieve_task" -> "User is retrieving or asking about stored information"
      [] label = "create_task" -> "User is creating a new task or to-do item"
      [] label = "unknown" -> "User intent is unclear or unknown"

\* keys of INTENT_EXAMPLES, in dict order (lines 29-35)
ExampleIntents ==
    <<"set_preference", "set_reminder", "schedule_meeting", "retrieve_task",
      "create_task">>

\* what a detector returns on any internal failure
FailedDetection == <<"unknown", 3000>>

\* detect_intent_huggingface (lines 53-83).  world.status says whether the
\* classifier could be built and whether inference raised; world.result is
\* the classifier's answer, its best label first.
detect_intent_huggingface(world) ==
    IF world.status # "ok" THEN FailedDetection
    ELSE LET top == world.result.labels[1]
             matched_intent ==
                 IF \E k \in 1..Len(IntentLabels) : Template(IntentLabels[k]) = top
                 THEN CHOOSE l \in Intents : Template(l) = top
                 ELSE "unknown"
         IN <<matched_intent, world.result.scores[1]>>

\* the loop of lines 113-126 over the intents of INTENT_EXAMPLES from
\* position k on; sims[intent] is the largest similarity of the text to an
\* example of that intent
RECURSIVE BestExample(_, _, _)
BestExample(sims, k, best) ==
    IF k > Len(ExampleIntents) THEN best
    ELSE LET intent == ExampleIntents[k] IN
         BestExample(sims, k + 1,
                     IF sims[intent] > best[2] THEN <<intent, sims[intent]>>
                     ELSE best)

\* detect_intent_sentence_transformers (lines 97-131)
detect_intent_sentence_transformers(world) ==
    IF world.status # "ok" THEN FailedDetection
    ELSE BestExample(world.result, 1, <<"unknown", 3000>>)

\* lines 171-179 of detect_intent_claude: the parsed JSON object result
ValidateClaude(result) ==
    LET intent == Get(result, "intent", "unknown")
        confidence == Get(result, "confidence", 3000)
    IN IF intent \notin Intents THEN <<"unknown", 3000>>
       ELSE <<intent, confidence>>

\* detect_intent_claude (lines 135-182); env_key is ANTHROPIC_API_KEY
detect_intent_claude(api_key, world) ==
    IF ~(Truthy(api_key) \/ Truthy(world.env_key)) THEN <<"unknown", 3000>>
    ELSE IF world.status # "ok" THEN FailedDetection
    ELSE ValidateClaude(world.result)

\* TransformerIntentDetector(backend, api_key).detect(text), lines 189-217;
\* the answers of the models are in world, whatever the text
detect(backend, api_key, world) ==
    IF backend = "huggingface" THEN detect_intent_huggingface(world)
    ELSE IF backend = "sentence_transformers"
         THEN detect_intent_sentence_transformers(world)
    ELSE IF backend = "claude" THEN detect_intent_claude(api_key, world)
    ELSE <<"unknown", 3000>>

(* ----------------- nlp_engine.analyze_input: the backends -------------- *)
\* stands for intent_backend = None
NoBackend == "None"

\* backend_map.get(intent_backend, "sentence_transformers"), lines 93-98
backend_map(intent_backend) ==
    CASE intent_backend = "Sentence Transformers" -> "sentence_transformers"
      [] intent_backend = "HuggingFace" -> "huggingface"
      [] intent_backend = "Claude API" -> "claude"
      [] OTHER -> "sentence_transformers"

\* the test of line 108 with <= in place of <
LowConfidenceUnknown_inclusive(pair) == pair[1] = "unknown" /\ pair[2] <= 5000

\* line 108: an answer taken for a failure of the backend
LowConfidenceUnknown(pair) == pair[1] = "unknown" /\ pair[2] < 5000

\* the try block, lines 101-113: the exception it raises ("" when none) and
\* the pair it leaves in (intent, confidence); rule_based is the pair
\* detect_intent_rule_based(user_input) returns
TryBackend(rule_based, backend, claude_api_key, world) ==
    IF ~world.import_ok
    THEN [exception |-> "ImportError", pair |-> FailedDetection]
    ELSE LET api_key == IF backend = "claude" THEN claude_api_key ELSE None
             pair == detect(backend, api_key, world)
         IN IF LowConfidenceUnknown(pair)
            THEN IF backend = "claude" /\ ~Truthy(api_key)
                 THEN [exception |-> "ValueError", pair |-> pair]
                 ELSE [exception |-> "", pair |-> rule_based]
            ELSE [exception |-> "", pair |-> pair]

\* lines 91-126: the (intent, confidence) pair analyze_input ends with, the
\* exception that leaves analyze_input ("" when it returns) and whether a
\* warning was issued; both except clauses fall back to the rule-based pair
Classify(rule_based, intent_backend, claude_api_key, world) ==
    IF intent_backend # NoBackend /\ intent_backend # "Rule-Based"
    THEN LET t == TryBackend(rule_based, backend_map(intent_backend),
                             claude_api_key, world)
         IN IF t.exception = "ImportError"
            THEN [pair |-> rule_based, raised |-> "", warned |-> TRUE]
            ELSE IF t.exception # ""
            THEN [pair |-> rule_based, raised |-> "", warned |-> TRUE]
            ELSE [pair |-> t.pair, raised |-> "", warned |-> FALSE]
    ELSE [pair |-> rule_based, raised |-> "", warned |-> FALSE]

\* lines 128-134: the returned dict, e being the extracted entities and c
\* the classification
IntentResult(e, c) ==
    [intent |-> c.pair[1], entities |-> e.entities, time |-> e.time,
     person |-> e.person, confidence |-> c.pair[2]]

\* analyze_input (lines 5-134)
analyze_input(text, intent_backend, claude_api_key, world) ==
    IntentResult(extract(text),
                 Classify(detect_intent_rule_based(text), intent_backend,
                          claude_api_key, world))

(* ------------------- memory_system / vector_memory --------------------- *)
\* get_preference(key): the stored value, None when nothing is stored
get_preference(prefs, key) == IF key \in DOMAIN prefs THEN prefs[key] ELSE None

\* the stores after one call to the memory system; a call is the tuple of
\* the function's name and its arguments, followed for get_preference and
\* semantic_search by the value returned
ApplyCall(mem, call) ==
    CASE call[1] = "store_preference" ->
            [mem EXCEPT !.preferences =
                [k \in DOMAIN mem.preferences \cup {call[2]} |->
                    IF k = call[2] THEN call[3] ELSE mem.preferences[k]]]
      [] call[1] = "add_task" ->
            [mem EXCEPT !.tasks = Append(mem.tasks, <<call[2], call[3]>>)]
      [] call[1] = "add_conversation" ->
            [mem EXCEPT !.conversations = Append(mem.conversations, call[2])]
      [] OTHER -> mem

RECURSIVE ApplyCalls(_, _, _)
ApplyCalls(mem, cs, k) ==
    IF k > Len(cs) THEN mem ELSE ApplyCalls(ApplyCall(mem, cs[k]), cs, k + 1)

(* -------------------------- reasoning_engine.py ------------------------ *)
CONFIDENCE_THRESHOLD == 7500

\* the sentinel strings of the time field
NoTimeDetected == <<"No time detected">>
NoTimeSpecified == <<"No time specified">>

\* sep.join(parts)
RECURSIVE JoinParts(_, _)
JoinParts(parts, sep) ==
    IF Len(parts) = 0 THEN <<>>
    ELSE IF Len(parts) = 1 THEN parts[1]
    ELSE parts[1] \o <<sep>> \o JoinParts(Tail(parts), sep)

\* the gate with <= in place of <
BelowThreshold_inclusive(confidence) == confidence <= CONFIDENCE_THRESHOLD

\* line 11: the confidence gate
BelowThreshold(confidence) == confidence < CONFIDENCE_THRESHOLD

\* the plan below the gate labelled unknown
ClarifyPlan_unknown(confidence) ==
    [action |-> "unknown",
     reasoning |-> <<"Confidence level (", <<confidence>>,
                     ") is below threshold (", <<7500>>,
                     "). Need clarification.">>]

\* lines 11-15
ClarifyPlan(confidence) ==
    [action |-> "clarify",
     reasoning |-> <<"Confidence level (", <<confidence>>,
                     ") is below threshold (", <<CONFIDENCE_THRESHOLD>>,
                     "). Need clarification.">>]

\* lines 21-27
StorePreferencePlan(user_input) ==
    [action |-> "store_preference", key |-> "meeting_time",
     value |-> user_input,
     reasoning |-> <<"User is setting a preference. Storing preference for future use.">>]

\* the plan of lines 30-41 with the preference never used
SchedulePlan_ignores_preference(pref) ==
    [action |-> "schedule_default",
     reasoning |-> <<"No stored preference found. Using default meeting time.">>]

\* lines 30-41, pref being the value get_preference returned
SchedulePlan(pref) ==
    IF Truthy(pref)
    THEN [action |-> "schedule_with_preference", time |-> pref,
          reasoning |-> <<"Found stored preference for meeting time: ", pref,
                          ". Using preference.">>]
    ELSE [action |-> "schedule_default",
          reasoning |-> <<"No stored preference found. Using default meeting time.">>]

\* the plan of lines 44-56 and 74-86 without the sentinel of lines 53, 83
StoreTaskPlan_raw_time(user_input, time_entity, person_entity, lead, withTime, withPerson) ==
    LET reasoning_parts ==
            <<<<lead>>>>
            \o (IF Truthy(time_entity) THEN <<<<withTime, time_entity>>>> ELSE <<>>)
            \o (IF Truthy(person_entity) THEN <<<<withPerson, person_entity>>>> ELSE <<>>)
    IN [action |-> "store_task", task |-> user_input,
        time |-> time_entity,
        person |-> person_entity,
        reasoning |-> JoinParts(reasoning_parts, ". ") \o <<".">>]

\* lines 44-56 and 74-86: the two branches differ in their three phrases
StoreTaskPlan(user_input, time_entity, person_entity, lead, withTime, withPerson) ==
    LET reasoning_parts ==
            <<<<lead>>>>
            \o (IF Truthy(time_entity) THEN <<<<withTime, time_entity>>>> ELSE <<>>)
            \o (IF Truthy(person_entity) THEN <<<<withPerson, person_entity>>>> ELSE <<>>)
    IN [action |-> "store_task", task |-> user_input,
        time |-> IF Truthy(time_entity) THEN time_entity ELSE NoTimeDetected,
        person |-> person_entity,
        reasoning |-> JoinParts(reasoning_parts, ". ") \o <<".">>]

\* the plan of lines 59-71 giving up when nothing is found
RecallPlan_unknown_when_empty(context) ==
    IF Truthy(context)
    THEN [action |-> "semantic_recall", context |-> context,
          reasoning |-> <<"Searching memory for similar past conversations. Found match with relevance score: ",
                          <<context[2]>>>>]
    ELSE [action |-> "unknown",
          reasoning |-> <<"Searching memory but no relevant past conversations found.">>]

\* lines 59-71, context being the value semantic_search returned
RecallPlan(context) ==
    IF Truthy(context)
    THEN [action |-> "semantic_recall", context |-> context,
          reasoning |-> <<"Searching memory for similar past conversations. Found match with relevance score: ",
                          <<context[2]>>>>]
    ELSE [action |-> "semantic_recall", context |-> None,
          reasoning |-> <<"Searching memory but no relevant past conversations found.">>]

\* the plan of lines 88-91 without its justification
UnknownPlan_silent == [action |-> "unknown", reasoning |-> <<>>]

\* lines 88-91
UnknownPlan ==
    [action |-> "unknown",
     reasoning |-> <<"Intent not recognized. Unable to determine appropriate action.">>]

\* reason(intent_data, user_input): the plan it returns and the calls it
\* makes to the memory system and the semantic search on the way; prefs is
\* the preference store and found what semantic_search returns when asked
reason(data, text, prefs, found) ==
    LET confidence == Get(data, "confidence", 0)
        intent == Get(data, "intent", "unknown")
        time_entity == Get(data, "time", None)
        person_entity == Get(data, "person", None)
    IN IF BelowThreshold(confidence)
       THEN [plan |-> ClarifyPlan(confidence), calls |-> <<>>]
       ELSE IF intent = "set_preference"
       THEN [plan |-> StorePreferencePlan(text), calls |-> <<>>]
       ELSE IF intent = "schedule_meeting"
       THEN LET pref == get_preference(prefs, "meeting_time") IN
            [plan |-> SchedulePlan(pref),
             calls |-> <<<<"get_preference", "meeting_time", pref>>>>]
       ELSE IF intent = "set_reminder"
       THEN [plan |-> StoreTaskPlan(text, time_entity, person_entity,
                                    "User wants to set a reminder",
                                    "with time: ", "for person: "),
             calls |-> <<>>]
       ELSE IF intent = "retrieve_task"
       THEN [plan |-> RecallPlan(found),
             calls |-> <<<<"semantic_search", text, found>>>>]
       ELSE IF intent = "create_task"
       THEN [plan |-> StoreTaskPlan(text, time_entity, person_entity,
                                    "User wants to create a task",
                                    "due by ", "assigned to "),
             calls |-> <<>>]
       ELSE [plan |-> UnknownPlan, calls |-> <<>>]

(* ---------------------------- action_engine.py ------------------------- *)
\* stands for a key that is None
NoKey == "None"

\* lines 20-34
StoreTaskResponse(time, person) ==
    <<"Task saved">>
    \o (IF Truthy(time) /\ time # NoTimeDetected /\ time # NoTimeSpecified
        THEN <<" for ", time>> ELSE <<>>)
    \o (IF Truthy(person) THEN <<" with ", person>> ELSE <<>>)
    \o <<".">>

\* execute without the call of line 5
Logged_nothing(text) == <<>>

\* line 5: the call made before the action is looked at
Logged(text) == <<<<"add_conversation", text>>>>

\* the task added twice
TaskCalls_twice(task, time) ==
    <<<<"add_task", task, time>>, <<"add_task", task, time>>>>

\* line 25: the task is handed to the task store
TaskCalls(task, time) == <<<<"add_task", task, time>>>>

\* the else branch returning nothing
GenericResponse_empty(action) == <<>>

\* line 52: the response to a label no branch handles
GenericResponse(action) == <<"Action '", action, "' executed successfully">>

\* execute(action_data, user_input): the response it returns and the calls
\* it makes to the memory system, in the order it makes them
execute(plan, text) ==
    LET action == Get(plan, "action", "unknown")
        logged == Logged(text)
    IN IF action = "store_preference"
       THEN [calls |-> logged \o <<<<"store_preference", Get(plan, "key", NoKey),
                                     Get(plan, "value", None)>>>>,
             response |-> <<"Preference saved successfully: ",
                            Get(plan, "key", "unknown")>>]
       ELSE IF action = "schedule_with_preference"
       THEN [calls |-> logged,
             response |-> <<"Meeting scheduled based on your preference: ",
                            Get(plan, "time", <<"default time">>)>>]
       ELSE IF action = "schedule_default"
       THEN [calls |-> logged,
             response |-> <<"Meeting scheduled at default time">>]
       ELSE IF action = "store_task"
       THEN LET task == Get(plan, "task", text)
                time == Get(plan, "time", NoTimeSpecified)
                person == Get(plan, "person", None)
            IN [calls |-> logged \o TaskCalls(task, time),
                response |-> StoreTaskResponse(time, person)]
       ELSE IF action = "semantic_recall"
       THEN LET context == Get(plan, "context", None)
            IN [calls |-> logged,
                response |-> IF Truthy(context)
                             THEN <<"I remember you mentioned: ", context[1],
                                    " (Relevance: ", <<context[2]>>, ")">>
                             ELSE <<"No relevant memory found for your query">>]
       ELSE IF action = "clarify"
       THEN [calls |-> logged,
             response |-> <<"Could you please clarify your request? I want to make sure I understand correctly.">>]
       ELSE IF action = "unknown"
       THEN [calls |-> logged,
             response |-> <<"I didn't understand that request. Could you rephrase it?">>]
       ELSE [calls |-> logged, response |-> GenericResponse(action)]

(* ------------------------------ requests ------------------------------ *)
\* the utterances the pipeline is run on
\* "schedule a meeting tomorrow at 3pm"
T_schedule ==
    <<"s","c","h","e","d","u","l","e"," ","a"," ","m","e","e","t","i","n","g"," ","t","o","m","o","r","r","o","w"," ","a","t"," ","3","p","m">>
\* "I prefer coffee over tea"
T_prefer ==
    <<"I"," ","p","r","e","f","e","r"," ","c","o","f","f","e","e"," ","o","v","e","r"," ","t","e","a">>
\* "i prefer meetings at 3pm"
T_prefer3pm ==
    <<"i"," ","p","r","e","f","e","r"," ","m","e","e","t","i","n","g","s"," ","a","t"," ","3","p","m">>
\* "did I mention anything about the meeting"
T_mention ==
    <<"d","i","d"," ","I"," ","m","e","n","t","i","o","n"," ","a","n","y","t","h","i","n","g"," ","a","b","o","u","t"," ","t","h","e"," ","m","e","e","t","i","n","g">>
\* "hello there"
T_hello ==
    <<"h","e","l","l","o"," ","t","h","e","r","e">>
Texts == { T_schedule, T_prefer, T_prefer3pm, T_remind, T_hello }

\* the selectable detection methods (app_streamlit.py, lines 112-115)
Backends == {"Rule-Based", "Sentence Transformers", "HuggingFace", "Claude API"}

\* an API key, and the values of claude_api_key and ANTHROPIC_API_KEY
ApiKey == <<"sk-ant-key">>
ApiKeys == {None, ApiKey}

\* confidences a model can answer with, and those only a remote model's
\* free-form JSON can contain
Scores == {4999, 5000, 7500, 10000}
WildScores == {-500, 15000}
\* similarities of the text to the examples of one intent
SimValues == {2000, 9000}

NoAnswer == [none |-> TRUE]

\* what the environment of an alternate backend can do: the import of
\* intent_detectors fails; the model cannot be built; inference raises or
\* the payload cannot be parsed; or the model answers
FailedWorlds ==
    { [import_ok |-> i, env_key |-> None, status |-> s, result |-> NoAnswer] :
        i \in {TRUE}, s \in {"init_failed", "raised"} }
    \cup { [import_ok |-> FALSE, env_key |-> None, status |-> "ok", result |-> NoAnswer] }

HuggingFaceWorlds ==
    { [import_ok |-> TRUE, env_key |-> None, status |-> "ok",
       result |-> [labels |-> <<l>>, scores |-> <<c>>]] :
        l \in { Template(i) : i \in Intents } \cup {"some other label"},
        c \in Scores }

SentenceWorlds ==
    { [import_ok |-> TRUE, env_key |-> None, status |-> "ok", result |-> sims] :
        sims \in [{ ExampleIntents[k] : k \in 1..Len(ExampleIntents) } -> SimValues] }

ClaudeAnswers ==
    { [intent |-> l, confidence |-> c] :
        l \in Intents \cup {"book_flight"}, c \in Scores \cup WildScores }
    \cup { [intent |-> l] : l \in Intents }
    \cup { [confidence |-> c] : c \in Scores }

ClaudeWorlds ==
    { [import_ok |-> TRUE, env_key |-> k, status |-> "ok", result |-> r] :
        k \in ApiKeys, r \in ClaudeAnswers }
    \cup { [import_ok |-> TRUE, env_key |-> k, status |-> "raised", result |-> NoAnswer] :
        k \in ApiKeys }

Worlds(intent_backend) ==
    CASE intent_backend = "Rule-Based" ->
            { [import_ok |-> TRUE, env_key |-> None, status |-> "ok", result |-> NoAnswer] }
      [] intent_backend = "HuggingFace" -> FailedWorlds \cup HuggingFaceWorlds
      [] intent_backend = "Sentence Transformers" -> FailedWorlds \cup SentenceWorlds
      [] intent_backend = "Claude API" -> FailedWorlds \cup ClaudeWorlds

\* the key the caller passes: only the Claude API backend is given one
KeysFor(intent_backend) == IF intent_backend = "Claude API" THEN ApiKeys ELSE {None}

\* what semantic_search can return: nothing, or an earlier conversation
\* with its score
SearchResults(log) == {None} \cup { <<log[k], 8000>> : k \in 1..Len(log) }

\* extract and detect_intent_rule_based on the utterances of the pipeline,
\* evaluated once
Extracted == [t \in Texts |-> extract(t)]
RuleBased == [t \in Texts |-> detect_intent_rule_based(t)]

(* ------------------------------- state -------------------------------- *)
VARIABLES
    pc,             \* where the current request is in the pipeline
    requests,       \* number of requests started
    user_input,     \* the text of the current request
    request,        \* the arguments and environment of analyze_input
    intent_data,    \* the dict analyze_input returned
    action_data,    \* the plan reason returned
    response,       \* the string execute returned
    calls,          \* the calls the current request made to the stores
    preferences,    \* memory system: preference store, key -> value
    tasks,          \* memory system: task list
    conversations,  \* memory system: conversation log
    stored          \* history: the values passed to store_preference
                    \* under "meeting_time", oldest first

vars == <<pc, requests, user_input, request, intent_data, action_data,
          response, calls, preferences, tasks, conversations, stored>>

stores == <<preferences, tasks, conversations, stored>>

NoRequest == [backend |-> NoBackend]
NoData == [none |-> TRUE]

Init ==
    /\ pc = "idle"
    /\ requests = 0
    /\ user_input = None
    /\ request = NoRequest
    /\ intent_data = NoData
    /\ action_data = NoData
    /\ response = <<>>
    /\ calls = <<>>
    /\ preferences = <<>>
    /\ tasks = <<>>
    /\ conversations = <<>>
    /\ stored = <<>>

\* the values passed to store_preference under "meeting_time" by the calls
\* cs from position k on
RECURSIVE StoredBy(_, _)
StoredBy(cs, k) ==
    IF k > Len(cs) THEN <<>>
    ELSE (IF cs[k][1] = "store_preference" /\ cs[k][2] = "meeting_time"
          THEN <<cs[k][3]>> ELSE <<>>) \o StoredBy(cs, k + 1)

\* app_streamlit.py line 224: analyze_input(user_input, intent_backend,
\* claude_api_key) on a non-empty text
Analyze ==
    /\ pc = "idle"
    /\ requests < MaxInteractions
    /\ \E text \in Texts :
         LET e == Extracted[text]
             rule_based == RuleBased[text]
         IN \E b \in Backends : \E key \in KeysFor(b) : \E world \in Worlds(b) :
              LET c == Classify(rule_based, b, key, world) IN
              /\ user_input' = text
              /\ request' = [backend |-> b, api_key |-> key, world |-> world,
                             raised |-> c.raised, warned |-> c.warned]
              /\ intent_data' = IntentResult(e, c)
    /\ pc' = "analyzed"
    /\ requests' = requests + 1
    /\ UNCHANGED <<action_data, response, calls, stores>>

\* app_streamlit.py line 295: reason(intent_data, user_input)
Reason ==
    /\ pc = "analyzed"
    /\ \E found \in SearchResults(conversations) :
         LET r == reason(intent_data, user_input, preferences, found)
             mem == ApplyCalls([preferences |-> preferences, tasks |-> tasks,
                                conversations |-> conversations], r.calls, 1)
         IN /\ action_data' = r.plan
            /\ calls' = r.calls
            /\ preferences' = mem.preferences
            /\ tasks' = mem.tasks
            /\ conversations' = mem.conversations
            /\ stored' = stored \o StoredBy(r.calls, 1)
    /\ pc' = "planned"
    /\ request' = NoRequest
    /\ UNCHANGED <<requests, user_input, intent_data, response>>

\* app_streamlit.py line 310: execute(action_data, user_input)
Execute ==
    /\ pc = "planned"
    /\ LET x == execute(action_data, user_input)
           mem == ApplyCalls([preferences |-> preferences, tasks |-> tasks,
                              conversations |-> conversations], x.calls, 1)
       IN /\ response' = x.response
          /\ calls' = calls \o x.calls
          /\ preferences' = mem.preferences
          /\ tasks' = mem.tasks
          /\ conversations' = mem.conversations
          /\ stored' = stored \o StoredBy(x.calls, 1)
    /\ pc' = "responded"
    /\ UNCHANGED <<requests, user_input, request, intent_data, action_data>>

\* the request is over: its IntentResult and ActionPlan are discarded
Finish ==
    /\ pc = "responded"
    /\ pc' = "idle"
    /\ user_input' = None
    /\ intent_data' = NoData
    /\ action_data' = NoData
    /\ response' = <<>>
    /\ calls' = <<>>
    /\ UNCHANGED <<requests, request, stores>>

Next == Analyze \/ Reason \/ Execute \/ Finish

Spec == Init /\ [][Next]_vars

(* ----------------------- reason and execute alone ---------------------- *)
\* IntentResults handed to reason() directly: every intent of the enum, a
\* label outside it, confidences around the threshold, and dicts without
\* the intent or the confidence key
UnitIntents == Intents \cup {"book_flight"}
UnitConfidences == {0, 7499, 7500, 10000}
\* "7 pm"
T_7pm ==
    <<"7"," ","p","m">>
\* "john"
T_john ==
    <<"j","o","h","n">>
UnitTimes == {None, <<>>, T_7pm}
UnitPersons == {None, T_john}

EntitiesOf(time, person) ==
    (IF Truthy(time) THEN <<<<time, "TIME">>>> ELSE <<>>)
    \o (IF Truthy(person) THEN <<<<person, "PERSON">>>> ELSE <<>>)

UnitResults ==
    { [intent |-> i, entities |-> EntitiesOf(tm, p), time |-> tm, person |-> p,
       confidence |-> c] :
        i \in UnitIntents, c \in UnitConfidences, tm \in UnitTimes, p \in UnitPersons }
    \cup { [intent |-> i, entities |-> <<>>, time |-> None, person |-> None] :
        i \in UnitIntents }
    \cup { [entities |-> <<>>, time |-> None, person |-> None, confidence |-> c] :
        c \in UnitConfidences }

\* plans handed to execute() directly, besides those reason() returns: an
\* action label outside the enum, no label at all, a preference under
\* another key, a task without its fields
UnitPlans ==
    { [action |-> "send_email", reasoning |-> <<"given">>],
      [reasoning |-> <<"given">>],
      [action |-> "store_preference", key |-> "timezone", value |-> T_7pm,
       reasoning |-> <<"given">>],
      [action |-> "store_task", reasoning |-> <<"given">>] }

UnitTexts == { T_schedule, T_prefer3pm, T_hello }

SubmitIntent ==
    /\ pc = "idle"
    /\ requests < MaxInteractions
    /\ \E data \in UnitResults : \E text \in UnitTexts :
         /\ user_input' = text
         /\ intent_data' = data
    /\ pc' = "analyzed"
    /\ requests' = requests + 1
    /\ UNCHANGED <<request, action_data, response, calls, stores>>

SubmitPlan ==
    /\ pc = "idle"
    /\ requests < MaxInteractions
    /\ \E plan \in UnitPlans : \E text \in UnitTexts :
         /\ user_input' = text
         /\ action_data' = plan
    /\ pc' = "planned"
    /\ requests' = requests + 1
    /\ UNCHANGED <<request, intent_data, response, calls, stores>>

NextUnit == SubmitIntent \/ SubmitPlan \/ Reason \/ Execute \/ Finish

SpecUnit == Init /\ [][NextUnit]_vars

(* ------------------------ test_all_modes.test_mode --------------------- *)
\* the modes of the test run, each in an environment where the alternate
\* backend is unavailable
TestModes ==
    { <<"Rule-Based", w>> : w \in Worlds("Rule-Based") }
    \cup { <<b, w>> : b \in Backends \ {"Rule-Based"}, w \in FailedWorlds }

\* test_all_modes.py line 57: analyze_input(text, intent_backend=mode_name,
\* claude_api_key=api_key)
TestAnalyze ==
    /\ pc = "idle"
    /\ \E text \in TestInputs :
         LET e == extract(text)
             rule_based == detect_intent_rule_based(text)
         IN \E m \in TestModes :
              LET c == Classify(rule_based, m[1], None, m[2]) IN
              /\ user_input' = text
              /\ request' = [backend |-> m[1], api_key |-> None, world |-> m[2],
                             raised |-> c.raised, warned |-> c.warned]
              /\ intent_data' = IntentResult(e, c)
    /\ pc' = "tested"
    /\ UNCHANGED <<requests, action_data, response, calls, stores>>

\* lines 59-72: the result is compared and recorded
TestRecord ==
    /\ pc = "tested"
    /\ pc' = "idle"
    /\ user_input' = None
    /\ request' = NoRequest
    /\ intent_data' = NoData
    /\ UNCHANGED <<requests, action_data, response, calls, stores>>

NextTest == TestAnalyze \/ TestRecord

SpecTest == Init /\ [][NextTest]_vars

(* ------------------------------ properties ---------------------------- *)
\* reason() has returned the plan of the current IntentResult
Planned == pc = "planned" /\ intent_data # NoData

Confidence == Get(intent_data, "confidence", 0)
Intent == Get(intent_data, "intent", "unknown")

\* the seven actions of an ActionPlan
Actions ==
    {"store_preference", "schedule_with_preference", "schedule_default",
     "store_task", "semantic_recall", "clarify", "unknown"}

\* C1: whatever the intent, reason() returns clarify when the confidence is
\* below 0.75 and then makes no call to the preference store or the
\* semantic search; at 0.75 and above it never returns clarify.
C1_ConfidenceGate ==
    Planned =>
        /\ (Confidence < 7500 => action_data.action = "clarify" /\ calls = <<>>)
        /\ (Confidence >= 7500 => action_data.action # "clarify")

\* a scheduling request at 0.7499 with a preference stored is sent back
C1_Witness ==
    /\ Planned /\ Confidence = 7499 /\ Intent = "schedule_meeting"
    /\ "meeting_time" \in DOMAIN preferences
    /\ action_data.action = "clarify"

\* C2: every result of analyze_input, with any backend and any answer of
\* the backend, has its confidence in [0,1] and its intent in the enum.
C2_ResultInRange ==
    pc = "analyzed" =>
        /\ intent_data.intent \in Intents
        /\ intent_data.confidence >= 0 /\ intent_data.confidence <= 10000

\* the four retrieval phrases of the claim
ClaimedRetrievalPhrases ==
    << <<"w","h","a","t"," ","h","a","v","e"," ","i">>,
       <<"d","i","d"," ","i"," ","m","e","n","t","i","o","n">>,
       <<"d","o"," ","y","o","u"," ","r","e","m","e","m","b","e","r">>,
       <<"t","e","l","l"," ","m","e"," ","a","b","o","u","t">> >>

\* C3: a text that contains a retrieval phrase is classified
\* (retrieve_task, 0.8) by the deterministic backend, whatever other
\* keywords it contains.
C3_RetrievalFirst ==
    pc = "tested" /\ ContainsAny(Lower(user_input), ClaimedRetrievalPhrases) =>
        intent_data.intent = "retrieve_task" /\ intent_data.confidence = 8000

\* "Did I mention the meeting"
W_mention_meeting ==
    <<"D","i","d"," ","I"," ","m","e","n","t","i","o","n"," ","t","h","e"," ","m","e","e","t","i","n","g">>
C3_Witness ==
    /\ pc = "tested" /\ user_input = W_mention_meeting
    /\ intent_data.intent = "retrieve_task"

C5_CredentialsRequired ==
    pc = "analyzed" /\ request.backend = "Claude API"
        /\ ~Truthy(request.api_key) /\ ~Truthy(request.world.env_key) =>
        request.raised = "ValueError"

\* C6: a schedule_meeting plan above the gate is schedule_default as long
\* as nothing was stored under "meeting_time", and afterwards
\* schedule_with_preference with the value stored last.
C6_ScheduleFollowsPreference ==
    Planned /\ Intent = "schedule_meeting" /\ Confidence >= 7500 =>
        IF stored = <<>>
        THEN action_data.action = "schedule_default"
        ELSE /\ action_data.action = "schedule_with_preference"
             /\ action_data.time = stored[Len(stored)]

\* two different values were stored; the plan carries the second
C6_Witness ==
    /\ Planned /\ Intent = "schedule_meeting"
    /\ stored = <<T_prefer, T_prefer3pm>>
    /\ action_data.action = "schedule_with_preference"
    /\ action_data.time = T_prefer3pm

\* C7: every call of execute appends the text to the conversation log
\* exactly once, as the first call it makes, whatever the action label;
\* nothing else changes the log, so it holds one entry per dispatched
\* request, in call order.
C7_LogOncePerExecute ==
    /\ [](Len(conversations) =
            IF pc \in {"analyzed", "planned"} THEN requests - 1 ELSE requests)
    /\ [][/\ (pc = "planned" =>
                /\ conversations' = Append(conversations, user_input)
                /\ Len(calls') > Len(calls)
                /\ calls'[Len(calls) + 1] = <<"add_conversation", user_input>>
                /\ \A k \in 1..Len(calls') :
                      (k # Len(calls) + 1) => (calls'[k][1] # "add_conversation"))
           /\ (pc # "planned" => conversations' = conversations)]_vars

\* a plan with a label outside the enum was dispatched as second request
C7_Witness ==
    /\ pc = "responded" /\ Get(action_data, "action", "unknown") = "send_email"
    /\ requests = 2 /\ conversations = <<T_hello, T_schedule>>

\* C8: above the gate the action follows the intent: store_preference
\* under "meeting_time" with the text as value; one of the two schedule
\* actions; store_task for reminders and tasks; semantic_recall with the
\* match, or none, as context; unknown for every other intent.  The action
\* is always one of the seven.
C8_IntentTable ==
    Planned =>
        /\ action_data.action \in Actions
        /\ Confidence >= 7500 =>
             CASE Intent = "set_preference" ->
                    /\ action_data.action = "store_preference"
                    /\ action_data.key = "meeting_time"
                    /\ action_data.value = user_input
               [] Intent = "schedule_meeting" ->
                    action_data.action \in {"schedule_with_preference", "schedule_default"}
               [] Intent \in {"set_reminder", "create_task"} ->
                    action_data.action = "store_task"
               [] Intent = "retrieve_task" ->
                    /\ action_data.action = "semantic_recall"
                    /\ Len(calls) = 1 /\ calls[1][1] = "semantic_search"
                    /\ action_data.context = calls[1][3]
               [] OTHER -> action_data.action = "unknown"

\* a recall request for which the search returned a match
C8_Witness ==
    /\ Planned /\ Intent = "retrieve_task" /\ Confidence >= 7500
    /\ action_data.action = "semantic_recall"
    /\ action_data.context = <<T_hello, 8000>>

\* C9: for set_reminder and create_task above the gate the plan is
\* store_task with the text as task, the dominant time or, without one, the
\* sentinel "No time detected" as time, and the dominant person.
C9_StoreTaskFields ==
    Planned /\ Intent \in {"set_reminder", "create_task"} /\ Confidence >= 7500 =>
        LET time == Get(intent_data, "time", None)
            person == Get(intent_data, "person", None)
        IN /\ action_data.action = "store_task"
           /\ action_data.task = user_input
           /\ action_data.time # None /\ action_data.time # <<>>
           /\ action_data.time =
                 IF time # None /\ time # <<>> THEN time ELSE NoTimeDetected
           /\ action_data.person = person

\* a task with a time and a person
C9_Witness ==
    /\ Planned /\ Intent = "create_task" /\ Confidence >= 7500
    /\ Get(intent_data, "time", None) = T_7pm
    /\ action_data.action = "store_task"
    /\ action_data.time = T_7pm /\ action_data.person = T_john

\* C10: every plan reason() returns has a non-empty reasoning string.
C10_ReasoningNonEmpty ==
    Planned =>
        /\ "reasoning" \in DOMAIN action_data
        /\ Len(action_data.reasoning) > 0
        /\ action_data.reasoning[1] # ""

\* an intent outside the enum, above the gate
C10_Witness ==
    /\ Planned /\ Intent = "book_flight" /\ Confidence = 10000
    /\ action_data.action = "unknown"

\* C11: execute() returns a non-empty response for every plan, also when
\* the action label is missing or outside the seven actions; a label no
\* branch handles gets the generic "executed successfully" message.
C11_ExecuteTotal ==
    pc = "responded" =>
        LET action == Get(action_data, "action", "unknown") IN
        /\ Len(response) > 0
        /\ response[1] # ""
        /\ action \notin Actions =>
              response = <<"Action '", action, "' executed successfully">>

\* a plan labelled send_email got the generic message
C11_Witness ==
    /\ pc = "responded"
    /\ Get(action_data, "action", "unknown") = "send_email"
    /\ response = <<"Action '", "send_email", "' executed successfully">>

\* C12: in Rule-Based mode, and in every mode that falls back to it,
\* analyze_input returns the expected intent for every utterance of
\* TEST_CASES, "set my timezone to EST" -> set_preference included.
C12_TestTableIntents ==
    pc = "tested" =>
        \A k \in 1..Len(TEST_CASES) :
            user_input = TEST_CASES[k][1] => intent_data.intent = TEST_CASES[k][2]

\* the six pairs the deterministic backend can return
RulePairs ==
    { <<"retrieve_task", 8000>>, <<"set_preference", 9000>>,
      <<"set_reminder", 9000>>, <<"schedule_meeting", 9000>>,
      <<"create_task", 8500>>, <<"unknown", 3000>> }

\* the pair each utterance of the pipeline gets from the rules
RulePairOf(text) ==
    CASE text = T_schedule -> <<"schedule_meeting", 9000>>
      [] text = T_prefer -> <<"set_preference", 9000>>
      [] text = T_prefer3pm -> <<"set_preference", 9000>>
      [] text = T_remind -> <<"set_reminder", 9000>>
      [] text = T_hello -> <<"unknown", 3000>>

TemporalWords ==
    { RelativeDays[k] : k \in 1..Len(RelativeDays) }
    \cup { Weekdays[k] : k \in 1..Len(Weekdays) }
    \cup { Months[k] : k \in 1..Len(Months) }

\* C14: neither the dominant person nor any PERSON entity analyze_input
\* produces is a relative-day word, a weekday name or a month name, in
\* any letter case.
C14_NoTemporalPerson ==
    pc = "tested" =>
        /\ intent_data.person # None => Lower(intent_data.person) \notin TemporalWords
        /\ \A k \in 1..Len(intent_data.entities) :
              intent_data.entities[k][2] = "PERSON" =>
                  Lower(intent_data.entities[k][1]) \notin TemporalWords

\* the words that make a "what" question a recall, as the claim lists them
ClaimedRecallWords ==
    << <<"t","o","l","d">>,
       <<"s","a","i","d">>,
       <<"m","e","n","t","i","o","n","e","d">>,
       <<"e","a","r","l","i","e","r">> >>

\* tier 1 as the claim states it
ClaimedTier1(text) ==
    \/ ContainsAny(text, ClaimedRetrievalPhrases)
    \/ /\ Contains(text, <<"w","h","a","t">>)
       /\ ContainsAny(text, ClaimedRecallWords)

\* C15: a text is classified (retrieve_task, 0.8) by the deterministic
\* backend if and only if its lower-cased form contains one of the four
\* retrieval phrases, or contains "what" at any position together with
\* one of told, said, mentioned, earlier.
C15_Tier1Exact ==
    pc = "tested" =>
        ((intent_data.intent = "retrieve_task" /\ intent_data.confidence = 8000)
            <=> ClaimedTier1(Lower(user_input)))

\* the keywords of tiers 4 and 5 and the two exclusions of tier 4, as the
\* claim lists them
ClaimedMeetingWords ==
    << <<"s","c","h","e","d","u","l","e">>,
       <<"m","e","e","t","i","n","g">>,
       <<"a","p","p","o","i","n","t">> >>
ClaimedTaskWords ==
    << <<"s","u","b","m","i","t">>,
       <<"a","t","t","e","n","d">>,
       <<"c","o","m","p","l","e","t","e">>,
       <<"f","i","n","i","s","h">>,
       <<"s","e","n","d">>,
       <<"c","a","l","l">>,
       <<"p","a","y">>,
       <<"b","u","y">>,
       <<"p","r","e","p","a","r","e">>,
       <<"v","i","s","i","t">>,
       <<"m","e","e","t">> >>
ClaimedExclusions ==
    << <<"d","i","d"," ","i"," ","m","e","n","t","i","o","n">>,
       <<"w","h","a","t">> >>

W_schedule_what ==
    <<"s","c","h","e","d","u","l","e"," ","w","h","a","t">>
C17_EveryMatchRecorded ==
    pc = "tested" =>
        LET matches == AllTimeMatches(user_input) IN
        \A k \in 1..Len(matches) :
            \E j \in 1..Len(intent_data.entities) :
                intent_data.entities[j] = <<matches[k], "TIME">>

\* C18: analyze_input appends exactly one PERSON entity, the dominant
\* person, when a strategy finds a person, and none otherwise, also when
\* the text has several honorific matches.
C18_OnePersonEntity ==
    pc = "tested" =>
        LET persons == { k \in 1..Len(intent_data.entities) :
                           intent_data.entities[k][2] = "PERSON" }
        IN IF intent_data.person = None
           THEN persons = {}
           ELSE /\ Cardinality(persons) = 1
                /\ \A k \in persons : intent_data.entities[k][1] = intent_data.person

\* C19: the dominant time is a match of maximal length among all matches
\* of the seven patterns, the last such one in scan order (patterns in
\* list order, matches of a pattern from left to right), and there is none
\* exactly when nothing matches; the reminder example gets "20 feb 2026".
C19_DominantTime ==
    pc = "tested" =>
        LET matches == AllTimeMatches(user_input)
            longest(k) == \A h \in 1..Len(matches) : Len(matches[h]) <= Len(matches[k])
        IN /\ (matches = <<>>) <=> (intent_data.time = None)
           /\ \A k \in 1..Len(matches) :
                 (longest(k) /\ \A h \in (k + 1)..Len(matches) : ~longest(h))
                     => intent_data.time = matches[k]
           /\ user_input = T_remind => intent_data.time = <<"2","0"," ","f","e","b"," ","2","0","2","6">>

\* "7 pm 3 pm"
W_7pm_3pm ==
    <<"7"," ","p","m"," ","3"," ","p","m">>
\* two matches of equal length: the later one is dominant
C19_Witness ==
    /\ pc = "tested" /\ user_input = W_7pm_3pm
    /\ intent_data.time = <<"3"," ","p","m">>

\* the calls of name f among cs
CallsTo(cs, f) == { k \in 1..Len(cs) : cs[k][1] = f }

\* C20: reason() writes to no store and reads the preference store at most
\* once, only for schedule_meeting above the gate; execute() changes the
\* preference store only for store_preference, setting the plan's key to
\* the plan's value, and the task store only for store_task, adding one
\* task with the plan's task text and time.
C20_StoreFrame ==
    [][/\ (pc = "analyzed" =>
             /\ preferences' = preferences /\ tasks' = tasks
             /\ conversations' = conversations
             /\ Cardinality(CallsTo(calls', "get_preference")) <= 1
             /\ CallsTo(calls', "get_preference") # {} =>
                   Intent = "schedule_meeting" /\ Confidence >= 7500
             /\ \A k \in 1..Len(calls') :
                   calls'[k][1] \in {"get_preference", "semantic_search"})
       /\ (pc = "planned" =>
             LET action == Get(action_data, "action", "unknown") IN
             /\ preferences' =
                   IF action = "store_preference"
                   THEN [k \in DOMAIN preferences \cup {action_data.key} |->
                           IF k = action_data.key THEN action_data.value
                           ELSE preferences[k]]
                   ELSE preferences
             /\ tasks' =
                   IF action = "store_task"
                   THEN Append(tasks, <<Get(action_data, "task", user_input),
                                        Get(action_data, "time", NoTimeSpecified)>>)
                   ELSE tasks)]_vars

\* a reminder was planned and dispatched after a preference was stored:
\* one task, the preference untouched
C20_Witness ==
    /\ pc = "responded" /\ Intent = "set_reminder"
    /\ Get(action_data, "action", "unknown") = "store_task"
    /\ DOMAIN preferences = {"meeting_time"}
    /\ tasks = <<<<user_input, action_data.time>>>>

\* the model or service behind the alternate backend of the current
\* request answered with a label outside the six intents
LabelOutsideEnum ==
    /\ request.world.import_ok /\ request.world.status = "ok"
    /\ \/ /\ request.backend = "HuggingFace"
          /\ \A l \in Intents : Template(l) # request.world.result.labels[1]
       \/ /\ request.backend = "Claude API"
          /\ Truthy(request.api_key) \/ Truthy(request.world.env_key)
          /\ Get(request.world.result, "intent", "unknown") \notin Intents

\* C21: every alternate backend returns an intent of the six-value enum,
\* and exactly (unknown, 0.3) whenever its model or service answered with
\* a label outside the enum.
C21_OutsideLabelClamped ==
    pc = "analyzed" /\ request.backend \notin {"Rule-Based", NoBackend}
        /\ request.world.import_ok =>
        LET own == detect(backend_map(request.backend), request.api_key,
                          request.world)
        IN /\ own[1] \in Intents
           /\ LabelOutsideEnum => own = <<"unknown", 3000>>

\* the rules decided the result of the current request
RulesDecided == pc = "analyzed" /\ request.backend = "Rule-Based"

\* C22: with the deterministic backend the confidence is below 0.75
\* exactly when the intent is unknown, so analyze_input -> reason gives
\* clarify if and only if the rules answered unknown, and never the action
\* unknown; the same holds for the plan of each of the six pairs the rules
\* can return.
C22_GateMatchesRules ==
    /\ [](RulesDecided =>
            /\ (intent_data.confidence < 7500) <=> (intent_data.intent = "unknown")
            /\ \A pair \in RulePairs :
                  LET data == [intent_data EXCEPT !.intent = pair[1],
                                                  !.confidence = pair[2]]
                      plan == reason(data, user_input, preferences, None).plan
                  IN /\ (plan.action = "clarify") <=> (pair[1] = "unknown")
                     /\ plan.action # "unknown")
    /\ [][RulesDecided /\ pc' = "planned" =>
            /\ (action_data'.action = "clarify") <=> (intent_data.intent = "unknown")
            /\ action_data'.action # "unknown"]_vars

\* "hello there" was classified unknown at 0.3 and sent back for
\* clarification
C22_Witness ==
    /\ Planned /\ user_input = T_hello
    /\ Intent = "unknown" /\ Confidence = 3000
    /\ action_data.action = "clarify" /\ calls = <<>>

\* the positions of the entities of one kind in the list of the result
EntitiesOfKind(kind) ==
    { k \in 1..Len(intent_data.entities) : intent_data.entities[k][2] = kind }

\* the dominant value agrees with the entities of its kind: absent when
\* there is none, the text of the last one otherwise
DominantIsLast(dominant, kind) ==
    LET ks == EntitiesOfKind(kind) IN
    IF ks = {} THEN dominant = None
    ELSE /\ dominant # None
         /\ \E k \in ks : /\ \A h \in ks : h <= k
                           /\ dominant = intent_data.entities[k][1]

\* C23: in every result of analyze_input the dominant time is absent
\* exactly when the list has no TIME entity and is otherwise the text of
\* the last TIME entity, likewise the dominant person and the PERSON
\* entities; every TIME entity precedes every PERSON entity and the TIME
\* entities' lengths never decrease along the list.
C23_DominantMatchesEntities ==
    pc = "tested" =>
        /\ DominantIsLast(intent_data.time, "TIME")
        /\ DominantIsLast(intent_data.person, "PERSON")
        /\ \A k \in EntitiesOfKind("TIME") : \A h \in EntitiesOfKind("PERSON") : k < h
        /\ \A k \in EntitiesOfKind("TIME") : \A h \in EntitiesOfKind("TIME") :
              k < h => Len(intent_data.entities[k][1]) <= Len(intent_data.entities[h][1])
        /\ EntitiesOfKind("TIME") \cup EntitiesOfKind("PERSON") = 1..Len(intent_data.entities)

\* "tomorrow Kavita mam"
W_tomorrow_kavita ==
    <<"t","o","m","o","r","r","o","w"," ","K","a","v","i","t","a"," ","m","a","m">>
\* one TIME entity followed by one PERSON entity, each the dominant value
C23_Witness ==
    /\ pc = "tested" /\ user_input = W_tomorrow_kavita
    /\ intent_data.entities = << <<<<"t","o","m","o","r","r","o","w">>, "TIME">>,
                                 <<<<"K","a","v","i","t","a"," ","m","a","m">>, "PERSON">> >>
    /\ intent_data.time = <<"t","o","m","o","r","r","o","w">>
====
